---- MODULE Spec2Model ----
(***************************************************************************)
(* Model of MDAnalysis.analysis.rms (package/MDAnalysis/analysis/rms.py):  *)
(* selection normalisation (_process_selection), the RMSD analysis class   *)
(* (constructor, run, save) and the streaming RMSF accumulator (RMSF.run). *)
(*                                                                         *)
(* Conventions.                                                            *)
(*  - Python None is the empty tuple <<>>, a present value x is <<x>>.     *)
(*  - Masses are integers in units of 0.1 u, so tol_mass = 0.1 is 1.       *)
(*  - Floating point numbers of RMSF.run are exact rationals <<num, den>>. *)
(*  - Trajectory frames are numbered from 0 (ts.frame of frame i is i).    *)
(***************************************************************************)
EXTENDS Integers, Sequences, FiniteSets, TLC

VARIABLES
    select,        \* SpecSel: the argument handed to _process_selection
    sel_out,       \* SpecSel: what _process_selection did with it
    ctor_in,       \* SpecCtor: the arguments of RMSD.__init__
    ctor_out,      \* SpecCtor: the outcome of RMSD.__init__
    cfg,           \* SpecRun: the constructed RMSD object's configuration
    pc,            \* SpecRun: position inside RMSD.run ("idle" outside)
    ref_ts_frame,  \* SpecRun: self.reference.trajectory.ts.frame
    self_rmsd,     \* SpecRun: self.rmsd
    run,           \* SpecRun: the locals of the RMSD.run call in progress
    last,          \* SpecRun: how the last finished call of run or save ended
                   \* (reset while a call of run is in progress)
    traj,          \* SpecRMSF: positions of the atom group, one per frame
    self_rmsf,     \* SpecRMSF: self._rmsf
    rmsf_last,     \* SpecRMSF: how the last call of RMSF.run ended
    fr             \* SpecFrames: the coordinates side of RMSD.run: the atoms,
                   \* the frames on file, the timestep buffer ts.positions and
                   \* the arguments of the superposition calls of a frame

vars == <<select, sel_out, ctor_in, ctor_out, cfg, pc, ref_ts_frame,
          self_rmsd, run, last, traj, self_rmsf, rmsf_last, fr>>

\* ------------------------------------------------------------------ bounds
MaxTupleLen == 3
MaxAtoms == 2
MaxFrames == 3
MaxPos == 2
MaxRmsfFrames == 3

\* ------------------------------------------------------------ generic helpers
None == <<>>

Some(x) == <<x>>

IsNone(o) == o = <<>>

Val(o) == o[1]

SeqsUpTo(S, n) == UNION {[1..m -> S] : m \in 0..n}

Max(a, b) == IF a >= b THEN a ELSE b

Min(a, b) == IF a <= b THEN a ELSE b

Abs(a) == IF a >= 0 THEN a ELSE 0 - a

RECURSIVE Flatten(_)
Flatten(ss) == IF ss = <<>> THEN <<>> ELSE Head(ss) \o Flatten(Tail(ss))

\* ===================================================================
\* Selection normalisation: _process_selection
\* ===================================================================
SelStrs == {"all", "name CA"}

Keys == {"mobile", "reference", "target"}

\* A selection expression held in a tuple or a dict: a string (v has the one
\* string) or a list of strings (v is the list).
StrElem(s) == [t |-> "str", v |-> <<s>>]

ListElem(l) == [t |-> "list", v |-> l]

Absent == [t |-> "absent", v |-> <<>>]

Elems == {StrElem(s) : s \in SelStrs} \cup {ListElem(<<"name CA", "all">>)}

EmptyDict == [k \in Keys |-> Absent]

PyStr(s) == [t |-> "str", v |-> <<s>>, items |-> <<>>, d |-> EmptyDict]

PyTuple(its) == [t |-> "tuple", v |-> <<>>, items |-> its, d |-> EmptyDict]

PyList(l) == [t |-> "list", v |-> l, items |-> <<>>, d |-> EmptyDict]

PyDict(f) == [t |-> "dict", v |-> <<>>, items |-> <<>>, d |-> f]

PyNone == [t |-> "NoneType", v |-> <<>>, items |-> <<>>, d |-> EmptyDict]

SelectInputs ==
    {PyStr(s) : s \in SelStrs}
    \cup {PyTuple(its) : its \in SeqsUpTo(Elems, MaxTupleLen)}
    \cup {PyList(l) : l \in SeqsUpTo(SelStrs, 1)}
    \cup {PyDict(f) : f \in [Keys -> Elems \cup {Absent}]}
    \cup {PyNone}

\* MDAnalysis.lib.util.asiterable: a string becomes a one-element list,
\* an iterable is returned as it is.
AsIterable(e) == IF e.t = "str" THEN <<e.v[1]>> ELSE e.v

SelError(exc) == [exc |-> exc, mobile |-> <<>>, reference |-> <<>>, warned |-> FALSE]

SelOk(mob, ref, w) ==
    [exc |-> "none", mobile |-> AsIterable(mob), reference |-> AsIterable(ref),
     warned |-> w]

\* rms.py 208-213: select[0] and select[1]; any further item is never read.
ProcessTuple(its) ==
    IF Len(its) < 2 THEN SelError("IndexError")
    ELSE SelOk(its[1], its[2], FALSE)

\* rms.py 214-228: 'target' overwrites 'mobile' (with a DeprecationWarning),
\* then both 'mobile' and 'reference' must be there.
ProcessDict(f) ==
    LET hasTarget == f["target"] # Absent
        g == IF hasTarget THEN [f EXCEPT !["mobile"] = f["target"]] ELSE f
    IN  IF g["mobile"] = Absent \/ g["reference"] = Absent
        THEN SelError("KeyError")
        ELSE SelOk(g["mobile"], g["reference"], hasTarget)

ProcessSelection(s) ==
    CASE s.t = "str"   -> SelOk(StrElem(s.v[1]), StrElem(s.v[1]), FALSE)
      [] s.t = "tuple" -> ProcessTuple(s.items)
      [] s.t = "dict"  -> ProcessDict(s.d)
      [] OTHER         -> SelError("TypeError")

NoSelOut == [called |-> FALSE, res |-> SelError("none")]

CallProcessSelection ==
    /\ ~sel_out.called
    /\ sel_out' = [called |-> TRUE, res |-> ProcessSelection(select)]
    /\ UNCHANGED <<fr, select, ctor_in, ctor_out, cfg, pc, ref_ts_frame, self_rmsd,
                   run, last, traj, self_rmsf, rmsf_last>>

\* ===================================================================
\* RMSD.__init__
\* ===================================================================
Names == {"CA", "CB"}

Masses == {120, 140}

TolMass == 1

Atoms == [name : Names, mass : Masses]

Universes == SeqsUpTo(Atoms, MaxAtoms) \ {<<>>}

\* Universe.select_atoms(*sels): the atoms matching each selection string, in
\* the order of the strings (an ordered selection).
Matches(a, s) == s = "all" \/ (s = "name CA" /\ a.name = "CA")

SelectOne(U, s) == SelectSeq(U, LAMBDA a : Matches(a, s))

SelectAtoms(U, sels) == Flatten([i \in 1..Len(sels) |-> SelectOne(U, sels[i])])

CtorSelects ==
    {PyStr(s) : s \in SelStrs}
    \cup {PyTuple(<<StrElem(a), StrElem(b)>>) : a, b \in SelStrs}
    \cup {PyList(<<"all">>)}

GroupSelectionArgs ==
    {None, Some(<<>>)} \cup {Some(<<g>>) : g \in CtorSelects}

\* rms.py 303-306
ReferenceOf(U, R) == IF IsNone(R) THEN U ELSE Val(R)

\* rms.py 308-311
ProcessGroups(gs) ==
    IF IsNone(gs) THEN <<>>
    ELSE [i \in 1..Len(Val(gs)) |-> ProcessSelection(Val(gs)[i])]

\* rms.py 327
MassMismatches(ref, mob, tol) ==
    {i \in 1..Len(ref) : Abs(ref[i].mass - mob[i].mass) > tol}

\* rms.py 331-334: the pairs written to the log.
LoggedPairs(ref, mob) == {i \in 1..Len(ref) : ref[i].name # mob[i].name}

\* rms.py 320, 355: logger.exception() is called without its required msg
\* argument, which raises TypeError; the raise SelectionError after it is
\* never reached.
LoggerException == "TypeError"

CtorFail(exc, at, logged) ==
    [called |-> TRUE, exc |-> exc, at |-> at, logged |-> logged,
     built |-> FALSE, ref_atoms |-> <<>>, traj_atoms |-> <<>>, groups |-> <<>>]

CtorBuilt(ref, mob, groups) ==
    [called |-> TRUE, exc |-> "none", at |-> 363, logged |-> {},
     built |-> TRUE, ref_atoms |-> ref, traj_atoms |-> mob, groups |-> groups]

\* rms.py 345-361
CheckGroups(U, Ref, gsel, ref, mob) ==
    LET groups == [i \in 1..Len(gsel) |->
                     [reference |-> SelectAtoms(Ref, gsel[i].reference),
                      mobile |-> SelectAtoms(U, gsel[i].mobile)]]
        bad == {i \in 1..Len(groups) :
                  Len(groups[i].mobile) # Len(groups[i].reference)}
    IN  IF bad # {} THEN CtorFail(LoggerException, 355, {})
        ELSE CtorBuilt(ref, mob, groups)

\* rms.py 317-339
CheckPrimary(U, Ref, sel, gsel, tol) ==
    LET ref == SelectAtoms(Ref, sel.reference)
        mob == SelectAtoms(U, sel.mobile)
    IN  IF Len(ref) # Len(mob) THEN CtorFail(LoggerException, 320, {})
        ELSE IF MassMismatches(ref, mob, tol) # {}
        THEN CtorFail("SelectionError", 338, LoggedPairs(ref, mob))
        ELSE CheckGroups(U, Ref, gsel, ref, mob)

\* rms.py 302-363
RMSDInit(U, R, sel, gs, tol) ==
    LET ps == ProcessSelection(sel)
        gsel == ProcessGroups(gs)
        gbad == {i \in 1..Len(gsel) : gsel[i].exc # "none"}
    IN  IF ps.exc # "none" THEN CtorFail(ps.exc, 307, {})
        ELSE IF gbad # {}
        THEN CtorFail(gsel[CHOOSE i \in gbad : \A j \in gbad : i <= j].exc, 309, {})
        ELSE CheckPrimary(U, ReferenceOf(U, R), ps, gsel, tol)

NoCtorIn == [traj |-> <<>>, reference |-> None, select |-> PyNone,
             groupselections |-> None]

NoCtorOut == [called |-> FALSE, exc |-> "none", at |-> 0, logged |-> {},
              built |-> FALSE, ref_atoms |-> <<>>, traj_atoms |-> <<>>,
              groups |-> <<>>]

Construct ==
    /\ ~ctor_out.called
    /\ \E U \in Universes, R \in {None} \cup {Some(V) : V \in Universes},
          sel \in CtorSelects, gs \in GroupSelectionArgs :
          /\ ctor_in' = [traj |-> U, reference |-> R, select |-> sel,
                         groupselections |-> gs]
          /\ ctor_out' = RMSDInit(U, R, sel, gs, TolMass)
    /\ UNCHANGED <<fr, select, sel_out, cfg, pc, ref_ts_frame, self_rmsd, run, last,
                   traj, self_rmsf, rmsf_last>>

\* ===================================================================
\* Trajectory collaborator (frames numbered from 0)
\* ===================================================================
\* trajectory[i] for an integer i: a negative index counts from the end; an
\* index outside the trajectory raises IndexError.
SeekOk(n, i) == 0 - n <= i /\ i < n

SeekFrame(n, i) == IF i < 0 THEN i + n ELSE i

\* Python's slice.indices(n): the clamped start and stop of [start:stop:step]
\* on a sequence of n items; step is the resolved, non-zero step.
SliceBound(n, o, step, isStart) ==
    LET lo == IF step > 0 THEN 0 ELSE 0 - 1
        hi == IF step > 0 THEN n ELSE n - 1
    IN  IF IsNone(o)
        THEN (IF (step > 0) = isStart THEN lo ELSE hi)
        ELSE IF Val(o) < 0 THEN Max(Val(o) + n, lo) ELSE Min(Val(o), hi)

StepOf(step) == IF IsNone(step) THEN 1 ELSE Val(step)

RECURSIVE RangeSeq(_, _, _)
RangeSeq(a, b, st) ==
    IF (st > 0 /\ a >= b) \/ (st < 0 /\ a <= b) THEN <<>>
    ELSE <<a>> \o RangeSeq(a + st, b, st)

\* The indices selected by [start:stop:step] on n items (step # 0).
SliceFrames(n, start, stop, step) ==
    LET st == StepOf(step)
    IN  RangeSeq(SliceBound(n, start, st, TRUE), SliceBound(n, stop, st, FALSE), st)

\* Mutant of NFramesOf: the range counted as closed, one row too many.
NFramesOfInclusive(n, start, stop, step) ==
    Len(SliceFrames(n, start, stop, step)) + 1

\* rms.py 434: len(np.arange(0, len(trajectory))[start:stop:step])
NFramesOf(n, start, stop, step) == Len(SliceFrames(n, start, stop, step))

\* rms.py 441: the frames that iterating trajectory[start:stop:step] yields.
TrajectorySlice(n, start, stop, step) == SliceFrames(n, start, stop, step)

\* ===================================================================
\* RMSD.run and RMSD.save
\* ===================================================================
Filenames == {None, Some(""), Some("rmsd.dat")}

SaveArgs == {None, Some(""), Some("out.dat")}

Starts == {None, Some(1), Some(0 - 1)}

Stops == {None, Some(2), Some(0 - 1)}

Steps == {None, Some(2), Some(0)}

RefFrameArgs == {None, Some(MaxFrames)}

NoRmsd == [set |-> FALSE, rows |-> <<>>]

\* One row of the local rmsd array; np.zeros leaves frame = time = 0.
ZeroRow == [frame |-> 0, time |-> 0, filled |-> FALSE]

\* rms.py 447: rmsd[k, :2] = ts.frame, trajectory.time (time is recorded as
\* the frame whose time is current); rmsd[k, 2] is filled at 456 or 479.
FilledRow(f) == [frame |-> f, time |-> f, filled |-> TRUE]

NoRun == [start |-> None, stop |-> None, step |-> None, ref_frame |-> 0,
          current_frame |-> 0, entry_frame |-> 0, entry_rmsd |-> NoRmsd,
          rmsd |-> <<>>, frames |-> <<>>, k |-> 0]

NoLast == [op |-> "none", outcome |-> "none", at |-> "none", k |-> 0,
           arg |-> None, ret |-> None, wrote |-> FALSE,
           start |-> None, stop |-> None, step |-> None,
           entry_frame |-> 0, before |-> NoRmsd]

RunFailed(exc, at, k) ==
    [NoLast EXCEPT !.op = "run", !.outcome = exc, !.at = at, !.k = k,
                   !.entry_frame = run.entry_frame, !.before = run.entry_rmsd]

\* rms.py 384-401: the keyword arguments and the frame to go back to.
CurrentFrame(tsframe) == tsframe - 1

RunCall ==
    /\ pc = "idle"
    /\ \E start \in Starts, stop \in Stops, step \in Steps, rf \in RefFrameArgs :
          run' = [NoRun EXCEPT
                    !.start = start, !.stop = stop, !.step = step,
                    !.ref_frame = IF IsNone(rf) THEN cfg.ref_frame ELSE Val(rf),
                    !.current_frame = CurrentFrame(ref_ts_frame),
                    !.entry_frame = ref_ts_frame,
                    !.entry_rmsd = self_rmsd]
    /\ pc' = "capture"
    /\ last' = NoLast
    /\ UNCHANGED <<fr, select, sel_out, ctor_in, ctor_out, cfg, ref_ts_frame,
                   self_rmsd, traj, self_rmsf, rmsf_last>>

\* rms.py 414-416: the finally clause, self.reference.trajectory[current_frame].
Restore(n, current_frame) == SeekFrame(n, current_frame)

\* rms.py 402-417: seek to ref_frame, read the reference atoms, go back.
\* The seek raises IndexError for a ref_frame outside the trajectory; reading
\* the reference frame may fail (IOError); the finally clause runs either way.
RunRefCapture ==
    /\ pc = "capture"
    /\ ref_ts_frame' = Restore(cfg.nref, run.current_frame)
    /\ IF ~SeekOk(cfg.nref, run.ref_frame)
       THEN /\ pc' = "idle"
            /\ last' = RunFailed("IndexError", "capture", 0)
            /\ run' = NoRun
       ELSE \E ok \in BOOLEAN :
              IF ok THEN /\ pc' = "allocate"
                         /\ UNCHANGED <<last, run>>
              ELSE /\ pc' = "idle"
                   /\ last' = RunFailed("IOError", "capture", 0)
                   /\ run' = NoRun
    /\ UNCHANGED <<fr, select, sel_out, ctor_in, ctor_out, cfg, self_rmsd,
                   traj, self_rmsf, rmsf_last>>

\* rms.py 419-439: the local rmsd array, one zero row per selected frame; a
\* step of 0 makes the slice raise ValueError.
RunAllocate ==
    /\ pc = "allocate"
    /\ IF StepOf(run.step) = 0
       THEN /\ pc' = "idle"
            /\ last' = RunFailed("ValueError", "allocate", 0)
            /\ run' = NoRun
       ELSE /\ pc' = "loop"
            /\ run' = [run EXCEPT
                 !.rmsd = [i \in 1..NFramesOf(cfg.ntraj, run.start, run.stop, run.step)
                             |-> ZeroRow],
                 !.frames = TrajectorySlice(cfg.ntraj, run.start, run.stop, run.step),
                 !.k = 0]
            /\ UNCHANGED last
    /\ UNCHANGED <<fr, select, sel_out, ctor_in, ctor_out, cfg, ref_ts_frame,
                   self_rmsd, traj, self_rmsf, rmsf_last>>

\* Mutant of RunFrameFail: the rows computed so far are stored on failure.
RunFrameFailPartial(exc) ==
    /\ pc' = "idle"
    /\ last' = RunFailed(exc, "frame", run.k)
    /\ run' = NoRun
    /\ self_rmsd' = [set |-> TRUE, rows |-> run.rmsd]

\* rms.py 441-484, on failure: the exception leaves run; self.rmsd is only
\* assigned at line 485.
RunFrameFail(exc) ==
    /\ pc' = "idle"
    /\ last' = RunFailed(exc, "frame", run.k)
    /\ run' = NoRun
    /\ UNCHANGED self_rmsd

\* rms.py 441-484: one pass of the loop body for frame run.frames[k + 1].
\* Reading the frame may fail (IOError) and the superposition may fail
\* (numerical failure of qcp.CalcRMSDRotationalMatrix).
RunFrame ==
    /\ pc = "loop"
    /\ run.k < Len(run.frames)
    /\ LET f == run.frames[run.k + 1]
       IN  \E res \in {"ok", "IOError", "NumericalError"} :
             /\ ref_ts_frame' = IF cfg.same /\ res # "IOError" THEN f
                                ELSE ref_ts_frame
             /\ IF res = "ok"
                THEN /\ run' = [run EXCEPT !.rmsd[run.k + 1] = FilledRow(f),
                                           !.k = run.k + 1]
                     /\ UNCHANGED <<pc, last, self_rmsd>>
                ELSE RunFrameFail(res)
    /\ UNCHANGED <<fr, select, sel_out, ctor_in, ctor_out, cfg,
                   traj, self_rmsf, rmsf_last>>

\* rms.py 485: self.rmsd = rmsd
RunCommit ==
    /\ pc = "loop"
    /\ run.k = Len(run.frames)
    /\ self_rmsd' = [set |-> TRUE, rows |-> run.rmsd]
    /\ last' = [NoLast EXCEPT !.op = "run", !.outcome = "ok", !.at = "end",
                              !.k = run.k, !.start = run.start,
                              !.stop = run.stop, !.step = run.step]
    /\ run' = NoRun
    /\ pc' = "idle"
    /\ UNCHANGED <<fr, select, sel_out, ctor_in, ctor_out, cfg, ref_ts_frame,
                   traj, self_rmsf, rmsf_last>>

\* Python truth value of an optional string: None and "" are false.
Truthy(o) == ~IsNone(o) /\ Val(o) # ""

\* Mutant of EffectiveFilename: the constructor's filename is not consulted.
EffectiveFilenameArgOnly(arg, default) == arg

\* rms.py 495: filename = filename or self.filename
EffectiveFilename(arg, default) == IF Truthy(arg) THEN arg ELSE default

\* rms.py 496-501
SaveResult(arg, default, rmsd) ==
    LET filename == EffectiveFilename(arg, default)
    IN  IF IsNone(filename)
        THEN [NoLast EXCEPT !.op = "save", !.outcome = "returned", !.arg = arg,
                            !.ret = filename]
        ELSE IF ~rmsd.set
        THEN [NoLast EXCEPT !.op = "save", !.outcome = "NoDataError", !.arg = arg]
        ELSE IF Val(filename) = ""
        THEN [NoLast EXCEPT !.op = "save", !.outcome = "IOError", !.arg = arg]
        ELSE [NoLast EXCEPT !.op = "save", !.outcome = "returned", !.arg = arg,
                            !.ret = filename, !.wrote = TRUE]

Save ==
    /\ pc = "idle"
    /\ \E arg \in SaveArgs : last' = SaveResult(arg, cfg.filename, self_rmsd)
    /\ UNCHANGED <<fr, select, sel_out, ctor_in, ctor_out, cfg, pc, ref_ts_frame,
                   self_rmsd, run, traj, self_rmsf, rmsf_last>>

NoCfg == [ntraj |-> 1, nref |-> 1, same |-> TRUE, ref_frame |-> 0,
          filename |-> None]

Configs ==
    {c \in [ntraj : 1..MaxFrames, nref : 1..MaxFrames, same : BOOLEAN,
            ref_frame : {0, 1}, filename : Filenames] :
        c.same => c.nref = c.ntraj}

\* ===================================================================
\* RMSF.run
\* ===================================================================
\* Exact rationals <<num, den>> with den > 0, in lowest terms.
RECURSIVE Gcd(_, _)
Gcd(a, b) == IF b = 0 THEN a ELSE Gcd(b, a % b)

Rat(n, d) ==
    LET g == Gcd(Abs(n), Abs(d))
        sgn == IF d < 0 THEN 0 - 1 ELSE 1
    IN  IF n = 0 THEN <<0, 1>> ELSE <<sgn * (n \div g), sgn * (d \div g)>>

RInt(i) == <<i, 1>>

RAdd(a, b) == Rat(a[1] * b[2] + b[1] * a[2], a[2] * b[2])

RSub(a, b) == Rat(a[1] * b[2] - b[1] * a[2], a[2] * b[2])

RMul(a, b) == Rat(a[1] * b[1], a[2] * b[2])

RDivInt(a, i) == Rat(a[1], a[2] * i)

NDim == 3

Dims == 1..NDim

\* Positions of the (one-atom) atom group in one frame: x and y vary from
\* frame to frame (y through negative values), z stays at 1.
Positions == {<<x, 0 - x, 1>> : x \in 0..MaxPos}

\* One atom moving linearly from (0,0,0) to (4,0,0) in 5 frames.
LinearTraj == [i \in 1..5 |-> <<i - 1, 0, 0>>]

Trajectories == (SeqsUpTo(Positions, MaxRmsfFrames) \ {<<>>}) \cup {LinearTraj}

\* rms.py 527: start=0, stop=-1, step=1
DefaultStart == 0

DefaultStop == 0 - 1

DefaultStep == 1

RmsfStarts == {DefaultStart, 1}

RmsfStops == {Some(DefaultStop), None}

RmsfSteps == {DefaultStep, 2}

\* rms.py 552-553
ZeroArray == <<RInt(0), RInt(0), RInt(0)>>

\* Mutant of SumsquaresUpdate: the factor k/(k + 1) is left out.
SumsquaresUpdateUnscaled(k, sumsq, mean, p) ==
    LET dev == RSub(RInt(p), mean)
    IN  RAdd(sumsq, RMul(dev, dev))

\* rms.py 567: sumsquares += (k/(k + 1.0)) * (positions - means)**2
SumsquaresUpdate(k, sumsq, mean, p) ==
    LET dev == RSub(RInt(p), mean)
    IN  RAdd(sumsq, RMul(Rat(k, k + 1), RMul(dev, dev)))

\* rms.py 568: means = (k * means + positions)/(k + 1)
MeansUpdate(k, mean, p) == RDivInt(RAdd(RMul(RInt(k), mean), RInt(p)), k + 1)

\* rms.py 566-570: one pass of the loop body, for the frame of index k of the
\* enumeration, whose positions are pos.
AccumulateFrame(acc, k, pos) ==
    LET ss(d) == SumsquaresUpdate(k, acc.sumsquares[d], acc.means[d], pos[d])
        mm(d) == MeansUpdate(k, acc.means[d], pos[d])
    IN  [k |-> Some(k), sumsquares |-> <<ss(1), ss(2), ss(3)>>,
         means |-> <<mm(1), mm(2), mm(3)>>]

\* rms.py 566-570: the accumulators after the frames fs[1..n], enumerate
\* giving frame fs[i] the index k = i - 1.
RECURSIVE Accumulate(_, _, _)
Accumulate(T, fs, n) ==
    IF n = 0 THEN [k |-> None, sumsquares |-> ZeroArray, means |-> ZeroArray]
    ELSE LET prev == Accumulate(T, fs, n - 1)
         IN  AccumulateFrame(prev, n - 1, T[fs[n] + 1])

RECURSIVE RSum(_, _)
RSum(a, n) == IF n = 0 THEN RInt(0) ELSE RAdd(RSum(a, n - 1), a[n])

\* rms.py 572: sumsquares.sum(axis=1)/(k + 1); rmsf is its square root.
Radicand(sumsq, k) == RDivInt(RSum(sumsq, NDim), k + 1)

NoRmsf == [set |-> FALSE, sq |-> RInt(0)]

NoRmsfLast == [called |-> FALSE, outcome |-> "none", start |-> 0, stop |-> None,
               step |-> 1, frames |-> <<>>, k |-> None,
               sumsquares |-> ZeroArray, means |-> ZeroArray]

\* Mutant of RMSFRunResult: k starts at 0 before the loop, so a run over no
\* frame reaches line 578 and stores an all-zero result.
RMSFRunResultKZero(T, start, stop, step) ==
    LET fs == TrajectorySlice(Len(T), Some(start), stop, Some(step))
        acc == Accumulate(T, fs, Len(fs))
        k == IF IsNone(acc.k) THEN 0 ELSE Val(acc.k)
        call == [NoRmsfLast EXCEPT !.called = TRUE, !.start = start,
                                   !.stop = stop, !.step = step, !.frames = fs,
                                   !.k = acc.k, !.sumsquares = acc.sumsquares,
                                   !.means = acc.means]
    IN  IF Radicand(acc.sumsquares, k)[1] < 0
        THEN [rmsf |-> self_rmsf, last |-> [call EXCEPT !.outcome = "ValueError"]]
        ELSE [rmsf |-> [set |-> TRUE, sq |-> Radicand(acc.sumsquares, k)],
              last |-> [call EXCEPT !.outcome = "ok"]]

\* rms.py 552-578
RMSFRunResult(T, start, stop, step) ==
    LET fs == TrajectorySlice(Len(T), Some(start), stop, Some(step))
        acc == Accumulate(T, fs, Len(fs))
        call == [NoRmsfLast EXCEPT !.called = TRUE, !.start = start,
                                   !.stop = stop, !.step = step, !.frames = fs,
                                   !.k = acc.k, !.sumsquares = acc.sumsquares,
                                   !.means = acc.means]
    IN  IF IsNone(acc.k)
        THEN [rmsf |-> self_rmsf, last |-> [call EXCEPT !.outcome = "NameError"]]
        ELSE IF Radicand(acc.sumsquares, Val(acc.k))[1] < 0
        THEN [rmsf |-> self_rmsf, last |-> [call EXCEPT !.outcome = "ValueError"]]
        ELSE [rmsf |-> [set |-> TRUE, sq |-> Radicand(acc.sumsquares, Val(acc.k))],
              last |-> [call EXCEPT !.outcome = "ok"]]

RMSFRun ==
    /\ \E start \in RmsfStarts, stop \in RmsfStops, step \in RmsfSteps :
          LET r == RMSFRunResult(traj, start, stop, step)
          IN  /\ self_rmsf' = r.rmsf
              /\ rmsf_last' = r.last
    /\ UNCHANGED <<fr, select, sel_out, ctor_in, ctor_out, cfg, pc, ref_ts_frame,
                   self_rmsd, run, last, traj>>

\* ===================================================================
\* RMSD.run, the coordinates of a frame: centring, superposition calls,
\* rotation of the frame (rms.py 394-484)
\* ===================================================================
\* Vectors <<x, y, z>> of exact rationals.
RVec(p) == <<RInt(p[1]), RInt(p[2]), RInt(p[3])>>

VAdd(a, b) == <<RAdd(a[1], b[1]), RAdd(a[2], b[2]), RAdd(a[3], b[3])>>

VSub(a, b) == <<RSub(a[1], b[1]), RSub(a[2], b[2]), RSub(a[3], b[3])>>

\* The row vector v times the 3x3 matrix R (R acts to the left).
VDot(v, R, j) ==
    RAdd(RAdd(RMul(v[1], RInt(R[1][j])), RMul(v[2], RInt(R[2][j]))),
         RMul(v[3], RInt(R[3][j])))

VMat(v, R) == <<VDot(v, R, 1), VDot(v, R, 2), VDot(v, R, 3)>>

\* Proper rotations the superposition may return: the identity, a quarter
\* turn about z, a half turn about x.
Rotations ==
    { <<<<1, 0, 0>>, <<0, 1, 0>>, <<0, 0, 1>>>>,
      <<<<0, 1, 0>>, <<0 - 1, 0, 0>>, <<0, 0, 1>>>>,
      <<<<1, 0, 0>>, <<0, 0 - 1, 0>>, <<0, 0, 0 - 1>>>> }

\* A universe of two atoms: their masses, and the positions an atom may have.
FrMasses == {<<120, 120>>, <<120, 140>>}

AtomPos == {<<1, 0, 0>>, <<0, 2, 1>>}

FramePos == {<<a, b>> : a, b \in AtomPos}

RefPos == {<<<<0, 0, 0>>, <<2, 0, 0>>>>, <<<<0, 1, 0>>, <<0, 0, 3>>>>}

\* Atom groups, as the indices of their atoms in the universe.
FrSelections == {<<1>>, <<2>>, <<1, 2>>}

FrGroupLists == {<<>>, <<<<2>>>>, <<<<1, 2>>>>}

MaxFrFrames == 2

FrFiles == SeqsUpTo(FramePos, MaxFrFrames) \ {<<>>}

\* AtomGroup.masses and AtomGroup.positions of the atoms idx.
MassesOf(masses, idx) == [i \in 1..Len(idx) |-> masses[idx[i]]]

PositionsOf(pos, idx) == [i \in 1..Len(idx) |-> pos[idx[i]]]

RECURSIVE MassSum(_, _)
MassSum(ms, n) == IF n = 0 THEN 0 ELSE MassSum(ms, n - 1) + ms[n]

RECURSIVE MomentSum(_, _, _, _)
MomentSum(ms, ps, d, n) ==
    IF n = 0 THEN RInt(0)
    ELSE RAdd(MomentSum(ms, ps, d, n - 1), RMul(RInt(ms[n]), ps[n][d]))

\* AtomGroup.center_of_mass(): the mass-weighted mean position.
CenterOfMass(masses, pos, idx) ==
    LET ms == MassesOf(masses, idx)
        ps == PositionsOf(pos, idx)
        n == Len(idx)
        c(d) == RDivInt(MomentSum(ms, ps, d, n), MassSum(ms, n))
    IN  <<c(1), c(2), c(3)>>

\* masses / masses.mean(): mass i times n over the sum of the masses.
RelativeWeights(ms) ==
    [i \in 1..Len(ms) |-> Rat(ms[i] * Len(ms), MassSum(ms, Len(ms)))]

\* rms.py 394-398: the weights of the run, from the primary reference atoms.
RunWeight(mass_weighted, masses, ref_atoms) ==
    IF mass_weighted THEN Some(RelativeWeights(MassesOf(masses, ref_atoms)))
    ELSE None

\* Coordinates minus a centre, atom by atom.
Centred(ps, com) == [i \in 1..Len(ps) |-> VSub(ps[i], com)]

\* Mutant of TransformPositions: only the atoms of the selection are moved.
TransformSelected(pos, idx, x_com, R, ref_com) ==
    [a \in 1..Len(pos) |->
        IF \E i \in 1..Len(idx) : idx[i] = a
        THEN VAdd(VMat(VSub(pos[a], x_com), R), ref_com)
        ELSE pos[a]]

\* rms.py 464-467: ts.positions -= x_com; ts.positions[:] = ts.positions * R;
\* ts.positions += ref_com -- on every atom of the frame (idx, the selection,
\* plays no part).
TransformPositions(pos, idx, x_com, R, ref_com) ==
    LET shifted == [a \in 1..Len(pos) |-> VSub(pos[a], x_com)]
        rotated == [a \in 1..Len(pos) |-> VMat(shifted[a], R)]
    IN  [a \in 1..Len(pos) |-> VAdd(rotated[a], ref_com)]

\* The arguments of one call of qcp.CalcRMSDRotationalMatrix(ref, mob, n,
\* rot, weights); atoms names the mobile atoms whose coordinates are mob.
QcpCall(ref, mob, n, rot, weights, atoms) ==
    [ref |-> ref, mob |-> mob, n |-> n, rot |-> rot, weights |-> weights,
     atoms |-> atoms]

\* rms.py 456-458 and 479-482: the primary superposition.
PrimaryCall(ref_coordinates, traj_coordinates, natoms, rot, weight, traj_atoms) ==
    QcpCall(ref_coordinates, traj_coordinates, natoms, rot, weight, traj_atoms)

\* rms.py 470-475: the secondary RMSD of each group selection, on the group's
\* positions as they are in ts.positions at that moment.
SecondaryCalls(group_ref, groups, ts, weight) ==
    [g \in 1..Len(groups) |->
        QcpCall(group_ref[g], PositionsOf(ts, groups[g]), Len(groups[g]),
                FALSE, weight, groups[g])]

\* rms.py 449: if self.groupselections_atoms
HasGroups(groups) == groups # <<>>

NoFr == [masses |-> <<>>, file |-> <<>>, refpos |-> <<>>, sel |-> <<>>,
         groups |-> <<>>, mass_weighted |-> FALSE, pc |-> "none", k |-> 0,
         weight |-> None, ref_com |-> RVec(<<0, 0, 0>>),
         ref_coordinates |-> <<>>, group_ref |-> <<>>,
         x_com |-> RVec(<<0, 0, 0>>), R |-> None, ts |-> <<>>, calls |-> <<>>]

\* The timestep buffer right after frame f is read from file.
ReadFrame(file, f) == [a \in 1..Len(file[f + 1]) |-> RVec(file[f + 1][a])]

\* rms.py 384-417: the weights, and the reference coordinates captured at the
\* reference frame.
FrRunCall ==
    /\ fr.pc = "idle"
    /\ LET rp == [a \in 1..Len(fr.refpos) |-> RVec(fr.refpos[a])]
           ref_com == CenterOfMass(fr.masses, rp, fr.sel)
       IN  fr' = [fr EXCEPT
             !.pc = "loop", !.k = 0,
             !.weight = RunWeight(fr.mass_weighted, fr.masses, fr.sel),
             !.ref_com = ref_com,
             !.ref_coordinates = Centred(PositionsOf(rp, fr.sel), ref_com),
             !.group_ref = IF HasGroups(fr.groups)
                           THEN [g \in 1..Len(fr.groups) |->
                                   PositionsOf(rp, fr.groups[g])]
                           ELSE <<>>]
    /\ UNCHANGED <<select, sel_out, ctor_in, ctor_out, cfg, pc, ref_ts_frame,
                   self_rmsd, run, last, traj, self_rmsf, rmsf_last>>

\* rms.py 441-484: the loop body for frame k of the trajectory; R is the
\* rotation the primary superposition writes into rot.
FrRunFrame ==
    /\ fr.pc = "loop"
    /\ fr.k < Len(fr.file)
    /\ LET ts == ReadFrame(fr.file, fr.k)
           x_com == CenterOfMass(fr.masses, ts, fr.sel)
           traj_coordinates == Centred(PositionsOf(ts, fr.sel), x_com)
       IN  IF HasGroups(fr.groups)
           THEN \E R \in Rotations :
                  LET moved == TransformPositions(ts, fr.sel, x_com, R, fr.ref_com)
                  IN  fr' = [fr EXCEPT
                        !.k = fr.k + 1, !.x_com = x_com, !.R = Some(R),
                        !.ts = moved,
                        !.calls = <<PrimaryCall(fr.ref_coordinates, traj_coordinates,
                                                Len(fr.sel), TRUE, fr.weight, fr.sel)>>
                                  \o SecondaryCalls(fr.group_ref, fr.groups, moved,
                                                    fr.weight)]
           ELSE fr' = [fr EXCEPT
                        !.k = fr.k + 1, !.x_com = x_com, !.R = None, !.ts = ts,
                        !.calls = <<PrimaryCall(fr.ref_coordinates, traj_coordinates,
                                                Len(fr.sel), FALSE, fr.weight, fr.sel)>>]
    /\ UNCHANGED <<select, sel_out, ctor_in, ctor_out, cfg, pc, ref_ts_frame,
                   self_rmsd, run, last, traj, self_rmsf, rmsf_last>>

\* rms.py 485: the loop is over.
FrRunEnd ==
    /\ fr.pc = "loop"
    /\ fr.k = Len(fr.file)
    /\ fr' = [fr EXCEPT !.pc = "done"]
    /\ UNCHANGED <<select, sel_out, ctor_in, ctor_out, cfg, pc, ref_ts_frame,
                   self_rmsd, run, last, traj, self_rmsf, rmsf_last>>

\* ===================================================================
\* Specifications
\* ===================================================================
InitSel ==
    /\ select \in SelectInputs
    /\ sel_out = NoSelOut
    /\ ctor_in = NoCtorIn /\ ctor_out = NoCtorOut
    /\ cfg = NoCfg /\ pc = "idle" /\ ref_ts_frame = 0 /\ self_rmsd = NoRmsd
    /\ run = NoRun /\ last = NoLast
    /\ traj = <<>> /\ self_rmsf = NoRmsf /\ rmsf_last = NoRmsfLast /\ fr = NoFr

NextSel == CallProcessSelection

SpecSel == InitSel /\ [][NextSel]_vars

InitCtor ==
    /\ select = PyNone /\ sel_out = NoSelOut
    /\ ctor_in = NoCtorIn /\ ctor_out = NoCtorOut
    /\ cfg = NoCfg /\ pc = "idle" /\ ref_ts_frame = 0 /\ self_rmsd = NoRmsd
    /\ run = NoRun /\ last = NoLast
    /\ traj = <<>> /\ self_rmsf = NoRmsf /\ rmsf_last = NoRmsfLast /\ fr = NoFr

NextCtor == Construct

SpecCtor == InitCtor /\ [][NextCtor]_vars

InitRun ==
    /\ select = PyNone /\ sel_out = NoSelOut
    /\ ctor_in = NoCtorIn /\ ctor_out = NoCtorOut
    /\ cfg \in Configs
    /\ pc = "idle"
    /\ ref_ts_frame \in 0..(cfg.nref - 1)
    /\ self_rmsd = NoRmsd
    /\ run = NoRun /\ last = NoLast
    /\ traj = <<>> /\ self_rmsf = NoRmsf /\ rmsf_last = NoRmsfLast /\ fr = NoFr

NextRun == RunCall \/ RunRefCapture \/ RunAllocate \/ RunFrame \/ RunCommit \/ Save

SpecRun == InitRun /\ [][NextRun]_vars

InitRMSF ==
    /\ select = PyNone /\ sel_out = NoSelOut
    /\ ctor_in = NoCtorIn /\ ctor_out = NoCtorOut
    /\ cfg = NoCfg /\ pc = "idle" /\ ref_ts_frame = 0 /\ self_rmsd = NoRmsd
    /\ run = NoRun /\ last = NoLast
    /\ traj \in Trajectories
    /\ self_rmsf = NoRmsf /\ rmsf_last = NoRmsfLast /\ fr = NoFr

NextRMSF == RMSFRun

SpecRMSF == InitRMSF /\ [][NextRMSF]_vars

InitFrames ==
    /\ select = PyNone /\ sel_out = NoSelOut
    /\ ctor_in = NoCtorIn /\ ctor_out = NoCtorOut
    /\ cfg = NoCfg /\ pc = "idle" /\ ref_ts_frame = 0 /\ self_rmsd = NoRmsd
    /\ run = NoRun /\ last = NoLast
    /\ traj = <<>> /\ self_rmsf = NoRmsf /\ rmsf_last = NoRmsfLast
    /\ \E masses \in FrMasses, file \in FrFiles, refpos \in RefPos,
          sel \in FrSelections, groups \in FrGroupLists, mw \in BOOLEAN :
          fr = [NoFr EXCEPT !.masses = masses, !.file = file, !.refpos = refpos,
                            !.sel = sel, !.groups = groups,
                            !.mass_weighted = mw, !.pc = "idle"]

NextFrames == FrRunCall \/ FrRunFrame \/ FrRunEnd

SpecFrames == InitFrames /\ [][NextFrames]_vars

\* ===================================================================
\* Properties
\* ===================================================================

\* ---- SpecRun ------------------------------------------------------

\* C1: once the reference-capture step of RMSD.run has exited, normally or by
\* an error of the seek or of the read, the reference trajectory is again at
\* the frame it was at when run was called.
C1_CursorRestored ==
    /\ pc = "allocate" => ref_ts_frame = run.entry_frame
    /\ (last.op = "run" /\ last.at = "capture") => ref_ts_frame = last.entry_frame

\* C3: a run that fails leaves self.rmsd exactly as it was when the run was
\* called: no partial timeseries is stored.
C3_NoPartialTimeseries ==
    (last.op = "run" /\ last.outcome # "ok") => self_rmsd = last.before

\* C3 witness: a run failed at a frame after filling at least one row, on an
\* object that already holds the timeseries of an earlier successful run.
C3_Witness ==
    /\ last.op = "run" /\ last.at = "frame" /\ last.k >= 1
    /\ last.before.set /\ Len(last.before.rows) >= 2

\* C4 as stated: save called before any successful run always ends with the
\* no-data error and writes nothing.
C4_SaveAlwaysNoData ==
    (last.op = "save" /\ ~self_rmsd.set) =>
        (last.outcome = "NoDataError" /\ ~last.wrote)

\* C4 amended: before any successful run, save writes nothing; it raises the
\* no-data error when the filename argument is non-empty or the constructor's
\* filename is not None, and otherwise returns None.
C4_SaveNoDataUnlessNoFilename ==
    (last.op = "save" /\ ~self_rmsd.set) =>
        /\ ~last.wrote
        /\ IF Truthy(last.arg) \/ ~IsNone(cfg.filename)
           THEN last.outcome = "NoDataError"
           ELSE last.outcome = "returned" /\ IsNone(last.ret)

\* C4 witness: save() without argument before any run on an object
\* constructed with a filename ended with the no-data error.
C4_Witness ==
    /\ last.op = "save" /\ ~self_rmsd.set /\ last.outcome = "NoDataError"
    /\ IsNone(last.arg) /\ cfg.filename = Some("rmsd.dat")

\* The frames of [start, stop) taken with a positive step on n frames, a
\* negative start or stop counting from the end.
FromEnd(n, i) == IF i < 0 THEN Max(i + n, 0) ELSE i

RangeFrames(n, start, stop, step) ==
    LET s0 == IF IsNone(start) THEN 0 ELSE FromEnd(n, Val(start))
        e0 == IF IsNone(stop) THEN n ELSE FromEnd(n, Val(stop))
    IN  {f \in 0..(n - 1) : s0 <= f /\ f < e0 /\ (f - s0) % StepOf(step) = 0}

\* C5: after a successful run the timeseries has exactly one filled row per
\* frame of [start, stop) taken with the step, in increasing frame order, and
\* each row holds the index (and the time) of its frame.
C5_OneRowPerFrame ==
    (last.op = "run" /\ last.outcome = "ok") =>
        LET rows == self_rmsd.rows
            F == RangeFrames(cfg.ntraj, last.start, last.stop, last.step)
        IN  /\ self_rmsd.set
            /\ Len(rows) = Cardinality(F)
            /\ \A i \in 1..Len(rows) :
                  rows[i].filled /\ rows[i].frame \in F /\ rows[i].time = rows[i].frame
            /\ \A i \in 1..(Len(rows) - 1) : rows[i].frame < rows[i + 1].frame

\* C5 witness: a successful run with step = 2 over a trajectory of three
\* frames stored two rows.
C5_Witness ==
    /\ last.op = "run" /\ last.outcome = "ok"
    /\ IsNone(last.start) /\ IsNone(last.stop) /\ last.step = Some(2)
    /\ Len(self_rmsd.rows) = 2 /\ cfg.ntraj = 3

\* ---- SpecCtor -----------------------------------------------------

ResolvedPrimary ==
    LET ps == ProcessSelection(ctor_in.select)
        Ref == ReferenceOf(ctor_in.traj, ctor_in.reference)
    IN  [reference |-> SelectAtoms(Ref, ps.reference),
         mobile |-> SelectAtoms(ctor_in.traj, ps.mobile)]

ResolvedGroups ==
    LET gsel == ProcessGroups(ctor_in.groupselections)
        Ref == ReferenceOf(ctor_in.traj, ctor_in.reference)
    IN  [i \in 1..Len(gsel) |->
           [reference |-> SelectAtoms(Ref, gsel[i].reference),
            mobile |-> SelectAtoms(ctor_in.traj, gsel[i].mobile)]]

SelectionsWellFormed ==
    /\ ProcessSelection(ctor_in.select).exc = "none"
    /\ LET gsel == ProcessGroups(ctor_in.groupselections)
       IN  \A i \in 1..Len(gsel) : gsel[i].exc = "none"

CountMismatch ==
    \/ Len(ResolvedPrimary.reference) # Len(ResolvedPrimary.mobile)
    \/ \E i \in 1..Len(ResolvedGroups) :
          Len(ResolvedGroups[i].reference) # Len(ResolvedGroups[i].mobile)

\* C2: constructing with selections of different atom counts (primary or any
\* group selection) ends with a selection error.
C2_CountMismatchSelectionError ==
    (ctor_out.called /\ SelectionsWellFormed /\ CountMismatch) =>
        (~ctor_out.built /\ ctor_out.exc = "SelectionError")

\* C6: when the primary selections have equal counts and some pairs differ in
\* mass by more than the tolerance, every such pair is in the diagnostics and
\* a selection error is raised.
C6_EveryMismatchReported ==
    (/\ ctor_out.called /\ SelectionsWellFormed
     /\ Len(ResolvedPrimary.reference) = Len(ResolvedPrimary.mobile)
     /\ MassMismatches(ResolvedPrimary.reference, ResolvedPrimary.mobile, TolMass) # {})
    => /\ ctor_out.exc = "SelectionError"
       /\ MassMismatches(ResolvedPrimary.reference, ResolvedPrimary.mobile, TolMass)
             \subseteq ctor_out.logged

\* C7: no RMSD object is produced when a group selection with equal counts
\* has a pair of atoms whose masses differ by more than the tolerance.
C7_GroupMassesValidated ==
    ctor_out.built =>
        \A i \in 1..Len(ctor_out.groups) :
            MassMismatches(ctor_out.groups[i].reference,
                           ctor_out.groups[i].mobile, TolMass) = {}

\* ---- SpecSel ------------------------------------------------------

AcceptedShape(s) ==
    \/ s.t = "str"
    \/ s.t = "tuple" /\ Len(s.items) = 2
    \/ /\ s.t = "dict"
       /\ s.d["reference"] # Absent
       /\ (s.d["mobile"] # Absent \/ s.d["target"] # Absent)

\* C8: _process_selection returns a canonical mapping exactly for a string,
\* a 2-tuple and a mapping with both keys, and raises for every other input.
C8_OnlyAcceptedShapes ==
    sel_out.called =>
        /\ (sel_out.res.exc = "none") <=> AcceptedShape(select)
        /\ sel_out.res.exc \in {"none", "IndexError", "KeyError", "TypeError"}

\* ---- SpecRMSF -----------------------------------------------------

DefaultCall ==
    /\ rmsf_last.called
    /\ rmsf_last.start = DefaultStart
    /\ rmsf_last.stop = Some(DefaultStop)
    /\ rmsf_last.step = DefaultStep

\* C9: RMSF.run with its default arguments on the 5-frame linear trajectory
\* visits all 5 frames and stores the squared value 2 (10 over 5), with no
\* contribution from y and z.
C9_DefaultRunAllFrames ==
    (DefaultCall /\ traj = LinearTraj) =>
        /\ rmsf_last.outcome = "ok"
        /\ rmsf_last.frames = <<0, 1, 2, 3, 4>>
        /\ self_rmsf.set /\ self_rmsf.sq = <<2, 1>>
        /\ rmsf_last.sumsquares[2] = <<0, 1>> /\ rmsf_last.sumsquares[3] = <<0, 1>>

RECURSIVE IntSum(_, _)
IntSum(f, n) == IF n = 0 THEN 0 ELSE IntSum(f, n - 1) + f[n]

\* The positions along dimension d of the frames the last run visited.
Visited(d) ==
    [i \in 1..Len(rmsf_last.frames) |-> traj[rmsf_last.frames[i] + 1][d]]

\* n times the two-pass mean, and n * n times the two-pass sum of squared
\* deviations from that mean, both integers.
NMean(d) == IntSum(Visited(d), Len(rmsf_last.frames))

NNSumsq(d) ==
    LET n == Len(rmsf_last.frames)
        x == Visited(d)
    IN  IntSum([i \in 1..n |-> (n * x[i] - NMean(d)) * (n * x[i] - NMean(d))], n)

\* C10: after a run over n >= 1 frames the running mean is the arithmetic
\* mean of the visited positions, the running sum of squares is the sum of
\* the squared deviations from that mean, and the stored result divides their
\* total by n, the number of frames visited.
C10_StreamingEqualsTwoPass ==
    (rmsf_last.called /\ Len(rmsf_last.frames) >= 1) =>
        LET n == Len(rmsf_last.frames)
        IN  /\ rmsf_last.k = Some(n - 1)
            /\ \A d \in Dims :
                  /\ rmsf_last.means[d][1] * n = NMean(d) * rmsf_last.means[d][2]
                  /\ rmsf_last.sumsquares[d][1] * n * n
                        = NNSumsq(d) * rmsf_last.sumsquares[d][2]
            /\ rmsf_last.outcome = "ok"
            /\ self_rmsf.set
            /\ self_rmsf.sq[1] * n * n * n
                  = (NNSumsq(1) + NNSumsq(2) + NNSumsq(3)) * self_rmsf.sq[2]

\* C10 witness: a run with step 2 visited 2 frames of a 3-frame trajectory
\* (stop - start would be 3) and ended with a non-integer mean and a non-zero
\* sum of squares along x.
C10_Witness ==
    /\ rmsf_last.called /\ rmsf_last.outcome = "ok"
    /\ Len(traj) = 3 /\ rmsf_last.frames = <<0, 2>>
    /\ rmsf_last.means[1][2] # 1
    /\ rmsf_last.sumsquares[1][1] # 0

\* -------------------------------------------------------------------
\* The relative weight the run gives to atom a: its mass over the mean mass
\* of the primary selection.
WeightOfAtom(a) == Rat(fr.masses[a] * Len(fr.sel), MassSum(MassesOf(fr.masses, fr.sel), Len(fr.sel)))

\* C11: in every RMSD computation of a mass-weighted run (the primary one and
\* each secondary one of a group selection) the weight vector has exactly one
\* entry per atom of the compared coordinate sets, and entry i is the weight
\* of atom i of that set, also when a group selection has another atom count
\* than the primary selection.
C11_WeightsAlignedWithAtoms ==
    \A c \in 1..Len(fr.calls) :
        ~IsNone(fr.calls[c].weights) =>
            LET call == fr.calls[c]
                w == Val(call.weights)
            IN  /\ Len(call.mob) = call.n
                /\ Len(call.ref) = call.n
                /\ Len(w) = call.n
                /\ \A i \in 1..Min(Len(w), call.n) :
                      w[i] = WeightOfAtom(call.atoms[i])

\* The frame the loop body has just processed, as it is on file.
FrameOnFile == ReadFrame(fr.file, fr.k - 1)

\* (x - mobile centroid) rotated by the primary rotation plus the reference
\* centroid, with both centroids those of the primary selection.
Superposed(x) ==
    LET mobile_centroid == CenterOfMass(fr.masses, FrameOnFile, fr.sel)
        reference_centroid ==
            CenterOfMass(fr.masses,
                         [a \in 1..Len(fr.refpos) |-> RVec(fr.refpos[a])], fr.sel)
    IN  VAdd(VMat(VSub(x, mobile_centroid), Val(fr.R)), reference_centroid)

\* C12: RMSD.run modifies the positions of the mobile frame exactly when
\* group selections are configured. Without group selections the positions
\* of a visited frame are as they were read; with at least one, the position
\* of every atom of the frame, selected or not, is (x - mobile centroid)
\* rotated by the primary rotation plus the reference centroid, and the
\* secondary RMSDs of the frame are computed on those new positions.
C12_FrameTransformedIffGroups ==
    (fr.pc \in {"loop", "done"} /\ fr.k >= 1) =>
        IF fr.groups = <<>>
        THEN /\ fr.ts = FrameOnFile
             /\ Len(fr.calls) = 1
        ELSE /\ \A a \in 1..Len(FrameOnFile) :
                    fr.ts[a] = Superposed(FrameOnFile[a])
             /\ Len(fr.calls) = 1 + Len(fr.groups)
             /\ \A g \in 1..Len(fr.groups) :
                    \A i \in 1..Len(fr.groups[g]) :
                        fr.calls[1 + g].mob[i]
                            = Superposed(FrameOnFile[fr.groups[g][i]])

\* C12 witness: a frame was processed with a group selection and a primary
\* selection of atom 1 alone, the rotation was not the identity, and atom 2,
\* which is not selected, was moved; the secondary RMSD used its new position.
C12_Witness ==
    /\ fr.pc \in {"loop", "done"} /\ fr.k >= 1
    /\ fr.sel = <<1>> /\ fr.groups = <<<<1, 2>>>>
    /\ ~IsNone(fr.R) /\ Val(fr.R)[1] # <<1, 0, 0>>
    /\ fr.ts[2] # FrameOnFile[2]
    /\ fr.calls[2].mob[2] = fr.ts[2]

\* C13: an RMSF run whose frame range selects no frame never stores a result:
\* it ends with an error and the stored result is what it was before the call
\* (absent if no run had succeeded).
C13_EmptyRunStoresNothing ==
    [][(rmsf_last'.called /\ rmsf_last'.frames = <<>>) =>
          /\ rmsf_last'.outcome = "NameError"
          /\ self_rmsf' = self_rmsf]_vars

\* C13 witness: the default range on a one-frame trajectory selected no frame,
\* the run ended with the error and no result is stored.
C13_Witness ==
    /\ rmsf_last.called /\ DefaultCall /\ Len(traj) = 1
    /\ rmsf_last.frames = <<>>
    /\ rmsf_last.outcome = "NameError"
    /\ ~self_rmsf.set

\* An empty run after a successful one left the earlier result in place.
C13_WitnessKept ==
    /\ rmsf_last.called /\ rmsf_last.frames = <<>>
    /\ rmsf_last.outcome = "NameError"
    /\ self_rmsf.set

====
